---- MODULE Spec2Model ----
(***************************************************************************)
(* Model of app.py: the Flask document-conversion service.                 *)
(*                                                                         *)
(*   Spec      the HTTP service: two POST /convert requests handled        *)
(*             concurrently (one thread each, no lock) and GET /download.  *)
(*   SpecCall  convert_documents called directly with a pathlib.Path as    *)
(*             output_path, calls issued one after the other, with         *)
(*             GET /download served concurrently and a wall clock.         *)
(*   SpecBatch one POST /convert, then convert_documents called directly   *)
(*             with a pathlib.Path on a batch, one after the other, with   *)
(*             GET /download served concurrently and a wall clock.         *)
(*                                                                         *)
(* Every blocking file-system call of the code is a step of its own: a     *)
(* file is opened (created or truncated to nothing) in one step and        *)
(* written in later ones, so that the other threads see the file empty,    *)
(* half written, or mixed from two writers.                                *)
(*                                                                         *)
(* Representation.  A file name "<stem>.<ext>" is the pair <<stem, ext>>   *)
(* (Path.stem is its first component); the empty name "" is <<"", "">>;    *)
(* "<stem>-table-<n>.png" is <<stem, "table", n>>.  A path is              *)
(* [root, sub, name]: sub = <<>> directly under root, and the path with    *)
(* the empty name is the directory itself.  The image subdirectory is      *)
(* sub = <<text, field, second>>, the expansion by strftime of the         *)
(* format "<stem>_%Y-%m-%d_%H%M%S": text is the literal part of the stem,  *)
(* field the value of the directive the stem carries (-1 when it carries   *)
(* none).  The body of a file is the sequence of the chunks written to     *)
(* it, a chunk being [doc, as, el, over]: document doc, `as` the raw       *)
(* upload, one of the exports or a rendered element, el the index of the   *)
(* chunk or of the element, and `over` the longer chunks it was written    *)
(* over, whose tails still follow it in the file.  A regular file that     *)
(* stands where a directory is expected is the file at that directory's    *)
(* path (the path with the empty name).  An upload's filename is           *)
(* [dir, name]: dir = "" for a plain file name, "/elsewhere" for an        *)
(* absolute name, "../output" for a name that climbs out of temp_files/.   *)
(***************************************************************************)
EXTENDS Integers, Sequences, FiniteSets, TLC

VARIABLES
    disk,   \* the file system: [files: path -> body, dirs: set of directories]
    now,    \* the wall clock, in ticks (SubSeconds ticks to the second)
    pc,     \* each process's position in its handler or call
    loc,    \* each process's local variables
    resp,   \* each request's HTTP response
    dl,     \* the answer to the last GET /download
    ghost,  \* per process: what it wrote, invoked and logged (history only)
    hist    \* the direct calls finished so far (history only)

vars == <<disk, now, pc, loc, resp, dl, ghost, hist>>

(* ------------------------------ bounds -------------------------------- *)
MaxFiles == 2
MaxUploads == 3
MaxTime == 2
MaxWork == 4

(* ------------------------------ processes ----------------------------- *)
Reqs == {"r1", "r2"}
Callers == {"c1"}
Procs == Reqs \cup Callers

(* ------------------------------ file system --------------------------- *)
TempDir == "temp_files"
DownloadDir == "output"
OutputPaths == {"output", "out1"}
HostDir == "elsewhere"
NoSub == <<>>
EmptyName == <<"", "">>

FilePath(root, sub, name) == [root |-> root, sub |-> sub, name |-> name]
DirPath(root, sub) == [root |-> root, sub |-> sub]
DirOf(path) == DirPath(path.root, path.sub)

Chunk(doc, as, el) == [doc |-> doc, as |-> as, el |-> el, over |-> <<>>]
Hole == Chunk("", "hole", 0)
EmptyBody == <<>>

\* shutil.copyfileobj moves an upload by buffers of this many bytes
BufferSize == 16384

\* the length in bytes of a document's upload (the document with media
\* is the longer one, and takes two buffers)
RawSize(doc) == IF doc = "media" THEN 20000 ELSE 100

Min(a, b) == IF a < b THEN a ELSE b

\* the length in bytes of a chunk: a buffer of an upload (the last one
\* is the shorter), a gap (no byte of its own), or an export or image,
\* taken to be as long as the first buffer of its document
Size(chunk) ==
    CASE chunk.as = "raw" -> Min(BufferSize, RawSize(chunk.doc) - (chunk.el - 1) * BufferSize)
      [] chunk.as = "hole" -> 0
      [] OTHER -> Min(BufferSize, RawSize(chunk.doc))

\* the body of a file written whole in one write
Content(doc, as, el) == <<Chunk(doc, as, el)>>

\* the file system of the host before the service runs: no temp_files/,
\* no output directory, and a directory elsewhere
HostDisk == [files |-> <<>>, dirs |-> {DirPath(HostDir, NoSub)}]

Exists(d, path) == path \in DOMAIN d.files

\* Does a regular file stand at the path of the directory?
FileAt(d, dir) == Exists(d, FilePath(dir.root, dir.sub, EmptyName))

\* Path.exists() of a directory's path: true for a directory and for a
\* regular file of that name
PathExists(d, dir) == dir \in d.dirs \/ FileAt(d, dir)

\* Path.mkdir(parents=True, exist_ok=True), when it succeeds
Mkdir(d, dir) ==
    [d EXCEPT !.dirs = @ \cup {dir, DirPath(dir.root, NoSub)}]

\* str(e) of an exception: its text, and for an OSError the path it
\* names ("<text>: '<path>'")
Msg(text, path) == [text |-> text, path |-> path]
NoPath == FilePath("", NoSub, EmptyName)
NoExc == Msg("", NoPath)

\* Path.mkdir(parents=True, exist_ok=True): the exception it raises, if
\* any.  exist_ok forgives a directory that exists, not a regular file
\* standing at the path or in its place of the parent.
MkdirError(d, dir) ==
    IF FileAt(d, dir)
    THEN Msg("[Errno 17] File exists", FilePath(dir.root, dir.sub, EmptyName))
    ELSE IF dir.sub # NoSub /\ FileAt(d, DirPath(dir.root, NoSub))
    THEN Msg("[Errno 20] Not a directory", FilePath(dir.root, dir.sub, EmptyName))
    ELSE NoExc

\* open(path, "w"/"wb"): the exception it raises, if any.  The path with
\* the empty name is the path of the directory: when that directory
\* exists the open fails, when it does not a regular file of that name
\* is created in its parent (or truncated).  A regular file standing
\* where a directory of the path is expected makes it fail too.
OpenError(d, path) ==
    LET parent == DirPath(path.root, NoSub)
    IN  IF path.name = EmptyName
        THEN IF DirOf(path) \in d.dirs
             THEN Msg("[Errno 21] Is a directory", path)
             ELSE IF path.sub # NoSub /\ FileAt(d, parent)
             THEN Msg("[Errno 20] Not a directory", path)
             ELSE IF path.sub # NoSub /\ parent \notin d.dirs
             THEN Msg("[Errno 2] No such file or directory", path)
             ELSE NoExc
        ELSE IF DirOf(path) \in d.dirs
        THEN NoExc
        ELSE IF FileAt(d, DirOf(path)) \/ FileAt(d, parent)
        THEN Msg("[Errno 20] Not a directory", path)
        ELSE Msg("[Errno 2] No such file or directory", path)

\* open(path, "w"/"wb"): the file is created, or truncated to nothing
Truncate(d, path) ==
    [d EXCEPT !.files = (path :> EmptyBody) @@ @]

\* the chunks whose bytes stand at a position of a file, the shortest
\* first: the chunk written last, and the longer ones it was written over
Layers(slot) == <<Chunk(slot.doc, slot.as, slot.el)>> \o slot.over

RECURSIVE Longer(_, _)
Longer(layers, n) ==
    IF layers = <<>>
    THEN <<>>
    ELSE IF Size(Head(layers)) > n
    THEN <<Head(layers)>> \o Longer(Tail(layers), n)
    ELSE Longer(Tail(layers), n)

\* a chunk written over what stands at its position: it replaces as many
\* bytes as it has, and the tail of a longer chunk stays behind it
Overlay(slot, chunk) == [chunk EXCEPT !.over = Longer(Layers(slot), Size(chunk))]

\* a write through a file object whose position is chunk `at`: the chunk
\* goes over what stands there, and a gap before it reads as zeros
PutChunk(body, at, chunk) ==
    [k \in 1..(IF at > Len(body) THEN at ELSE Len(body)) |->
        IF k = at
        THEN Overlay(IF k <= Len(body) THEN body[k] ELSE Hole, chunk)
        ELSE IF k <= Len(body) THEN body[k] ELSE Hole]

WriteAt(d, path, at, chunk) ==
    [d EXCEPT !.files[path] = PutChunk(@, at, chunk)]

\* the file-system calls of a handler, in program order
MkdirOp(dir) == [op |-> "mkdir", path |-> FilePath(dir.root, dir.sub, EmptyName),
                 at |-> 0, chunk |-> Hole]
OpenOp(path) == [op |-> "open", path |-> path, at |-> 0, chunk |-> Hole]
WriteOp(path, at, chunk) == [op |-> "write", path |-> path, at |-> at, chunk |-> chunk]

\* the exception a file-system call raises, if any
OpError(d, op) ==
    CASE op.op = "mkdir" -> MkdirError(d, DirOf(op.path))
      [] op.op = "open" -> OpenError(d, op.path)
      [] op.op = "write" -> NoExc

\* the effect of a file-system call that raises nothing
ExecOp(d, op) ==
    CASE op.op = "mkdir" -> Mkdir(d, DirOf(op.path))
      [] op.op = "open" -> Truncate(d, op.path)
      [] op.op = "write" -> WriteAt(d, op.path, op.at, op.chunk)

\* pathlib.PurePath.stem
Stem(name) == name[1]

(* ------------------------------ clock --------------------------------- *)
\* datetime.now() is finer than the second that "%H%M%S" prints
SubSeconds == {0, 1}
Second(t) == t \div Cardinality(SubSeconds)
Micro(t) == t % Cardinality(SubSeconds)

(* ------------------------------ documents ----------------------------- *)
\* What the external converter makes of an uploaded file's bytes: a
\* document with an ordered element list, or a conversion failure.
Docs == {"text", "media", "blank", "bad"}

Tbl(img) == [kind |-> "table", image |-> img]
Pic(img) == [kind |-> "picture", image |-> img]
Txt == [kind |-> "text", image |-> FALSE]

DocElems(doc) ==
    CASE doc = "media" -> <<Tbl(TRUE), Pic(FALSE), Txt, Tbl(FALSE), Pic(TRUE)>>
      [] doc = "blank" -> <<Pic(FALSE)>>
      [] OTHER -> <<>>

\* the raw bytes of a document, in the buffers copyfileobj moves them by
RawBody(doc) ==
    [k \in 1..((RawSize(doc) + BufferSize - 1) \div BufferSize) |-> Chunk(doc, "raw", k)]

\* the document a file's bytes are, when they are one document's bytes
DocOf(body) ==
    IF \E doc \in Docs : body = RawBody(doc)
    THEN (CHOOSE doc \in Docs : body = RawBody(doc))
    ELSE "garbled"

Convertible(doc) == doc \notin {"bad", "garbled"}

(* ------------------------------ requests ------------------------------ *)
\* The form fields a request may carry (no format; one tag and an output
\* path of its own; two tags and the default output path) and the format
\* lists a direct call may carry (one of them with a tag the Exporter
\* does not know, "html").
Form(formats, output_path) == [formats |-> formats, output_path |-> output_path]
RequestForms ==
    {Form({}, "output"), Form({"txt"}, "out1"), Form({"md", "json"}, "output")}
CallFormats == {{"md", "txt"}, {"json", "yaml", "html"}}

\* FileStorage.filename is the client's string, taken as it comes
Filename(dir, name) == [dir |-> dir, name |-> name]
Upload(filename, doc) == [filename |-> filename, doc |-> doc]
Uploads ==
    {Upload(Filename("", <<"a", "docx">>), "text"),
     Upload(Filename("", <<"a", "docx">>), "media"),
     Upload(Filename("", EmptyName), "text"),
     Upload(Filename("/elsewhere", <<"x", "docx">>), "text")}

\* the uploads of the request that precedes a direct call: one written
\* outside temp_files/, one without a name, and two whose names climb out
\* of temp_files/ to the output directory's place
BatchUploads ==
    {Upload(Filename("/elsewhere", <<"x", "docx">>), "text"),
     Upload(Filename("", EmptyName), "text"),
     Upload(Filename("../output", EmptyName), "text"),
     Upload(Filename("../output", <<"x", "docx">>), "text")}

SeqsUpTo(S, n) == UNION {[1..k -> S] : k \in 0..n}

ContentTypes == {"application/json", "multipart/form-data"}

StrArg(s) == [kind |-> "str", val |-> s]
PathArg(s) == [kind |-> "Path", val |-> s]

NoResp == [status |-> 0, kind |-> "none", error |-> NoExc, files |-> {}]

NoResult == [file |-> FilePath(TempDir, NoSub, EmptyName), doc |-> "text"]

IdleLoc ==
    [files |-> <<>>, formats |-> {}, output_path |-> StrArg("output"),
     content_type |-> "multipart/form-data", input_paths |-> <<>>,
     i |-> 0, j |-> 0, result |-> NoResult, exc |-> NoExc,
     ops |-> <<>>, image_dir |-> DirPath(TempDir, NoSub), warnings |-> {}]

IdleGhost ==
    [wrote |-> {}, made |-> {}, invoked |-> 0, trace |-> <<>>,
     warnings |-> {}, staged |-> <<>>]

\* the history of what a process opened for writing and created
LogOp(g, op) ==
    CASE op.op = "mkdir" -> [g EXCEPT !.made = @ \cup {DirOf(op.path)}]
      [] op.op = "open" -> [g EXCEPT !.wrote = @ \cup {op.path}]
      [] OTHER -> g

(* ------------------------------ Exporter ------------------------------ *)
\* one `if "<tag>" in formats:` block of export_selected_formats: the
\* file is opened for writing, then the export is computed and written
ExportOne(tag, result, out, formats) ==
    IF tag \in formats
    THEN LET path == FilePath(out, NoSub, <<Stem(result.file.name), tag>>)
         IN  <<OpenOp(path), WriteOp(path, 1, Chunk(result.doc, tag, 0))>>
    ELSE <<>>

\* the file-system calls of export_selected_formats, in order
export_selected_formats(result, output_path, formats) ==
    LET out == output_path.val
    IN  <<MkdirOp(DirPath(out, NoSub))>>
        \o ExportOne("md", result, out, formats)
        \o ExportOne("txt", result, out, formats)
        \o ExportOne("json", result, out, formats)
        \o ExportOne("yaml", result, out, formats)

(* ------------------------------ Media Extractor ----------------------- *)
\* The stem is part of the format string handed to strftime, so a
\* directive in it is expanded; of the stems the model draws, "r%f"
\* carries one (the microseconds).
StemFormat(stem) ==
    IF stem = "r%f"
    THEN [text |-> "r", directive |-> "%f"]
    ELSE [text |-> stem, directive |-> ""]

\* now.strftime(f"{doc_filename}_%Y-%m-%d_%H%M%S")
strftime(t, doc_filename) ==
    LET fmt == StemFormat(doc_filename)
    IN  <<fmt.text, IF fmt.directive = "%f" THEN Micro(t) ELSE -1, Second(t)>>

\* element.get_image(result.document): an image, or None
get_image(doc, k) == IF DocElems(doc)[k].image THEN Chunk(doc, "png", k) ELSE Chunk(doc, "none", k)

IsImage(image) == image.as = "png"

\* Does element k of the document render to no image although it is a
\* table or a picture?
Unrendered(doc, k) ==
    DocElems(doc)[k].kind \in {"table", "picture"} /\ ~DocElems(doc)[k].image

\* (variant for C4: the fatal policy, where the first table or picture
\* without an image ends the extraction of the document)
SaveElementFatal(st, k, result, image_dir) ==
    IF \E m \in 1..k : Unrendered(result.doc, m)
    THEN st
    ELSE LET element == DocElems(result.doc)[k]
             n == IF element.kind = "table" THEN st.table_counter + 1 ELSE st.picture_counter + 1
             path == FilePath(image_dir.root, image_dir.sub, <<Stem(result.file.name), element.kind, n>>)
             save == <<OpenOp(path), WriteOp(path, 1, Chunk(result.doc, "png", k))>>
         IN  IF element.kind = "table"
             THEN [st EXCEPT !.found = TRUE, !.table_counter = n, !.ops = @ \o save]
             ELSE IF element.kind = "picture"
             THEN [st EXCEPT !.found = TRUE, !.picture_counter = n, !.ops = @ \o save]
             ELSE st

\* One iteration of `for element, _level in result.document.iterate_items()`:
\* the file-system calls and the warning it adds.
\* st = [ops, warnings, table_counter, picture_counter, found]
SaveElement(st, k, result, image_dir) ==
    LET element == DocElems(result.doc)[k]
        doc_filename == Stem(result.file.name)
        image == get_image(result.doc, k)
    IN  IF element.kind = "table"
        THEN LET n == st.table_counter + 1
                 path == FilePath(image_dir.root, image_dir.sub, <<doc_filename, "table", n>>)
             IN  IF IsImage(image)
                 THEN [st EXCEPT !.found = TRUE, !.table_counter = n,
                                 !.ops = @ \o <<OpenOp(path), WriteOp(path, 1, image)>>]
                 ELSE [st EXCEPT !.found = TRUE, !.table_counter = n,
                                 !.warnings = @ \cup {<<doc_filename, "table", n>>}]
        ELSE IF element.kind = "picture"
        THEN LET n == st.picture_counter + 1
                 path == FilePath(image_dir.root, image_dir.sub, <<doc_filename, "picture", n>>)
             IN  IF IsImage(image)
                 THEN [st EXCEPT !.found = TRUE, !.picture_counter = n,
                                 !.ops = @ \o <<OpenOp(path), WriteOp(path, 1, image)>>]
                 ELSE [st EXCEPT !.found = TRUE, !.picture_counter = n,
                                 !.warnings = @ \cup {<<doc_filename, "picture", n>>}]
        ELSE st

RECURSIVE SaveElements(_, _, _, _)
SaveElements(st, k, result, image_dir) ==
    IF k > Len(DocElems(result.doc))
    THEN st
    ELSE SaveElements(SaveElement(st, k, result, image_dir), k + 1, result, image_dir)

\* lines 104-105 and 116-147: the element loop of one result
save_images(result, image_dir) ==
    SaveElements([ops |-> <<>>, warnings |-> {}, table_counter |-> 0,
                  picture_counter |-> 0, found |-> FALSE], 1, result, image_dir)

\* os.walk(output_path) with os.path.relpath: the files under the
\* directory, each as its path relative to it (the order of the list is
\* the operating system's; it is kept as a set); nothing when the path
\* is no directory.
RelPath(sub, name) == [sub |-> sub, name |-> name]

ListFiles(d, root) ==
    IF DirPath(root, NoSub) \in d.dirs
    THEN {RelPath(p.sub, p.name) : p \in {q \in DOMAIN d.files : q.root = root}}
    ELSE {}


(* ------------------------------ HTTP Service -------------------------- *)
\* (variant for C1: the validation demands that both be missing)
InvalidBoth(files, formats) == files = <<>> /\ formats = {}

\* line 163: `if not files or not output_formats`
Invalid(files, formats) == files = <<>> \/ formats = {}

\* (variant for C5: the error response drops the exception's message)
ErrorRespBare(status, kind, msg) ==
    [status |-> status, kind |-> kind, error |-> Msg("Internal Server Error", NoPath), files |-> {}]

ErrorResp(status, kind, msg) ==
    [status |-> status, kind |-> kind, error |-> msg, files |-> {}]

SuccessResp(kind, files) ==
    [status |-> 200, kind |-> kind, error |-> NoExc, files |-> files]

\* lines 187-191 and 194-196: JSON for an API request, HTML otherwise
BodyKind(content_type) ==
    IF content_type = "application/json" THEN "json" ELSE "html"

\* What Flask hands the handler: a JSON request carries no form, so no
\* uploaded file and no formats field.
WellFormed(files, formats, content_type) ==
    content_type = "application/json" => (files = <<>> /\ formats = {})

\* line 172, `temp_dir / file.filename`: a plain name lands in the
\* directory, the empty name is the directory itself, an absolute name
\* replaces the directory altogether, and a name that starts with "../"
\* climbs out of it
Join(temp_dir, filename) ==
    CASE filename.dir = "" -> FilePath(temp_dir, NoSub, filename.name)
      [] filename.dir = "/elsewhere" -> FilePath(HostDir, NoSub, filename.name)
      [] filename.dir = "../output" -> FilePath(DownloadDir, NoSub, filename.name)

\* The requests are numbered in their order of arrival, and the model
\* stops admitting requests when the uploads they carry together would
\* pass MaxUploads.
Earlier(r) == IF r = "r2" THEN {"r1"} ELSE {}

RECURSIVE Carried(_)
Carried(S) ==
    IF S = {}
    THEN 0
    ELSE LET q == CHOOSE x \in S : TRUE
         IN  Len(loc[q].files) + Carried(S \ {q})

\* a direct call that has ended, as the history keeps it
Finished(p, outcome) ==
    [input_paths |-> loc[p].input_paths, output_path |-> loc[p].output_path,
     formats |-> loc[p].formats, trace |-> ghost[p].trace, outcome |-> outcome]

\* An exception leaves convert_documents, which has no try: in a request
\* it reaches the handler's `except Exception as e`, in a direct call the
\* caller.
Raise(p, exc) ==
    /\ loc' = [loc EXCEPT ![p].exc = exc]
    /\ pc' = [pc EXCEPT ![p] = IF p \in Reqs THEN "except" ELSE "raised"]
    /\ hist' = IF p \in Callers THEN Append(hist, Finished(p, "raised")) ELSE hist

\* POST /convert, lines 157-169: read the form, validate, create temp_files/
Receive(r, files, formats, output_path, content_type) ==
    /\ pc[r] = "idle"
    /\ \A q \in Earlier(r) : pc[q] # "idle"
    /\ Carried(Reqs \ {r}) + Len(files) <= MaxUploads
    /\ WellFormed(files, formats, content_type)
    /\ LET temp_dir == DirPath(TempDir, NoSub)
           l == [IdleLoc EXCEPT !.files = files, !.formats = formats,
                                !.output_path = StrArg(output_path),
                                !.content_type = content_type]
       IN  IF Invalid(files, formats)
           THEN /\ resp' = [resp EXCEPT ![r] = ErrorResp(400, "json", Msg("Files and formats are required", NoPath))]
                /\ pc' = [pc EXCEPT ![r] = "done"]
                /\ loc' = [loc EXCEPT ![r] = l]
                /\ disk' = disk
                /\ ghost' = [ghost EXCEPT ![r] = IdleGhost]
           ELSE IF MkdirError(disk, temp_dir) # NoExc
           THEN /\ resp' = [resp EXCEPT ![r] = NoResp]
                /\ pc' = [pc EXCEPT ![r] = "except"]
                /\ loc' = [loc EXCEPT ![r] = [l EXCEPT !.exc = MkdirError(disk, temp_dir)]]
                /\ disk' = disk
                /\ ghost' = [ghost EXCEPT ![r] = IdleGhost]
           ELSE /\ resp' = [resp EXCEPT ![r] = NoResp]
                /\ pc' = [pc EXCEPT ![r] = IF files = <<>> THEN "call" ELSE "stage"]
                /\ loc' = [loc EXCEPT ![r] = l]
                /\ disk' = Mkdir(disk, temp_dir)
                /\ ghost' = [ghost EXCEPT ![r] = [IdleGhost EXCEPT !.made = {temp_dir}]]
    /\ UNCHANGED <<now, dl, hist>>

\* FileStorage.save(dst) after its open: shutil.copyfileobj moves the
\* upload to the file chunk by chunk
copyfileobj(doc, path) ==
    [k \in 1..Len(RawBody(doc)) |-> WriteOp(path, k, RawBody(doc)[k])]

\* lines 171-173: an iteration of `for file in files` up to the open of
\* file.save, which creates or truncates the file, or raises
StageFile(r) ==
    /\ pc[r] = "stage"
    /\ LET k == Len(loc[r].input_paths) + 1
           file == loc[r].files[k]
           file_path == Join(TempDir, file.filename)
       IN  IF OpenError(disk, file_path) # NoExc
           THEN /\ loc' = [loc EXCEPT ![r].exc = OpenError(disk, file_path)]
                /\ pc' = [pc EXCEPT ![r] = "except"]
                /\ UNCHANGED <<disk, ghost>>
           ELSE /\ disk' = ExecOp(disk, OpenOp(file_path))
                /\ loc' = [loc EXCEPT ![r].ops = copyfileobj(file.doc, file_path)]
                /\ ghost' = [ghost EXCEPT ![r] = LogOp(@, OpenOp(file_path))]
                /\ pc' = [pc EXCEPT ![r] = "save"]
    /\ UNCHANGED <<now, resp, dl, hist>>

\* lines 173-174: file.save copies its next chunk; after the last one
\* the path is appended to input_paths
SaveChunk(r) ==
    /\ pc[r] = "save"
    /\ LET op == Head(loc[r].ops)
           rest == Tail(loc[r].ops)
           k == Len(loc[r].input_paths) + 1
       IN  /\ disk' = ExecOp(disk, op)
           /\ IF rest # <<>>
              THEN /\ loc' = [loc EXCEPT ![r].ops = rest]
                   /\ pc' = pc
              ELSE /\ loc' = [loc EXCEPT ![r].ops = rest,
                                         ![r].input_paths = Append(@, op.path)]
                   /\ pc' = [pc EXCEPT ![r] = IF k = Len(loc[r].files) THEN "call" ELSE "stage"]
    /\ UNCHANGED <<now, resp, dl, ghost, hist>>

\* What stands at each input path: the bytes a conversion would read.
Staged(d, input_paths) ==
    [k \in 1..Len(input_paths) |->
        IF Exists(d, input_paths[k]) THEN DocOf(d.files[input_paths[k]]) ELSE "missing"]

\* line 177: the handler calls convert_documents with output_path as the
\* form's string (lines 66-83 build the converter)
Convert(r) ==
    /\ pc[r] = "call"
    /\ pc' = [pc EXCEPT ![r] = "loop"]
    /\ loc' = [loc EXCEPT ![r].i = 1]
    /\ ghost' = [ghost EXCEPT ![r].invoked = @ + 1,
                              ![r].staged = Staged(disk, loc[r].input_paths)]
    /\ UNCHANGED <<disk, now, resp, dl, hist>>

(* ------------------------------ Conversion Orchestrator --------------- *)
Event(op, j, dir) == [op |-> op, j |-> j, dir |-> dir]

\* output_path.exists() at line 87: a str has no such method
HasExists(output_path) == output_path.kind = "Path"

\* lines 85-90: the head of `for input_path in input_paths`, the
\* existence check on output_path and the (lazy) convert_all over ALL the
\* input paths
LoopHead(p) ==
    /\ pc[p] = "loop"
    /\ IF loc[p].i > Len(loc[p].input_paths)
       THEN /\ pc' = [pc EXCEPT ![p] = IF p \in Reqs THEN "respond" ELSE "returned"]
            /\ hist' = IF p \in Callers THEN Append(hist, Finished(p, "returned")) ELSE hist
            /\ UNCHANGED <<disk, loc, ghost>>
       ELSE IF ~HasExists(loc[p].output_path)
       THEN /\ Raise(p, Msg("'str' object has no attribute 'exists'", NoPath))
            /\ UNCHANGED <<disk, ghost>>
       ELSE LET dir == DirPath(loc[p].output_path.val, NoSub)
                absent == ~PathExists(disk, dir)
            IN  IF absent /\ MkdirError(disk, dir) # NoExc
                THEN /\ Raise(p, MkdirError(disk, dir))
                     /\ UNCHANGED <<disk, ghost>>
                ELSE /\ disk' = IF absent THEN Mkdir(disk, dir) ELSE disk
                     /\ ghost' = [ghost EXCEPT ![p].made = IF absent THEN @ \cup {dir} ELSE @]
                     /\ loc' = [loc EXCEPT ![p].j = 1]
                     /\ pc' = [pc EXCEPT ![p] = "iter"]
                     /\ hist' = hist
    /\ UNCHANGED <<now, resp, dl>>

\* lines 93-101: `for result in conv_result` draws the next result; the
\* converter reads and converts the j-th input path now, and raises when
\* the file is missing or cannot be converted; the Exporter is entered
ConvertNext(p) ==
    /\ pc[p] = "iter"
    /\ LET j == loc[p].j
           paths == loc[p].input_paths
       IN  IF j > Len(paths)
           THEN /\ loc' = [loc EXCEPT ![p].i = @ + 1]
                /\ pc' = [pc EXCEPT ![p] = "loop"]
                /\ UNCHANGED <<ghost, hist>>
           ELSE IF ~Exists(disk, paths[j]) \/ ~Convertible(DocOf(disk.files[paths[j]]))
           THEN /\ Raise(p, Msg("ConversionError", NoPath))
                /\ UNCHANGED ghost
           ELSE LET result == [file |-> paths[j], doc |-> DocOf(disk.files[paths[j]])]
                IN  /\ loc' = [loc EXCEPT ![p].result = result,
                                          ![p].ops = export_selected_formats(result, loc[p].output_path,
                                                                             loc[p].formats)]
                    /\ ghost' = [ghost EXCEPT ![p].trace =
                                    @ \o <<Event("convert", j, DirPath(loc[p].output_path.val, NoSub)),
                                           Event("export", j, DirPath(loc[p].output_path.val, NoSub))>>]
                    /\ pc' = [pc EXCEPT ![p] = "export"]
                    /\ hist' = hist
    /\ UNCHANGED <<disk, now, resp, dl>>

\* lines 46-62: the next file-system call of export_selected_formats,
\* which raises or takes effect
ExportStep(p) ==
    /\ pc[p] = "export"
    /\ loc[p].ops # <<>>
    /\ LET op == Head(loc[p].ops)
       IN  IF OpError(disk, op) # NoExc
           THEN /\ Raise(p, OpError(disk, op))
                /\ UNCHANGED <<disk, ghost>>
           ELSE /\ disk' = ExecOp(disk, op)
                /\ ghost' = [ghost EXCEPT ![p] = LogOp(@, op)]
                /\ loc' = [loc EXCEPT ![p].ops = Tail(@)]
                /\ UNCHANGED <<pc, hist>>
    /\ UNCHANGED <<now, resp, dl>>

\* the end of the body of `for result in conv_result` (lines 148-152):
\* the warnings printed for the result are on the console, the next
\* result is due
EndResult(l, g) ==
    [loc |-> [l EXCEPT !.j = @ + 1, !.warnings = {}],
     ghost |-> [g EXCEPT !.warnings = @ \cup l.warnings,
                         !.trace = Append(@, Event("media", l.j, l.image_dir))],
     pc |-> "iter"]

\* lines 104-118: the Exporter has returned; the clock is read, the image
\* subdirectory is named and created unless it exists, and the element
\* loop is entered
MakeImageDir(p) ==
    /\ pc[p] = "export"
    /\ loc[p].ops = <<>>
    /\ LET result == loc[p].result
           doc_filename == Stem(result.file.name)
           image_subdir == strftime(now, doc_filename)
           image_dir == DirPath(loc[p].output_path.val, image_subdir)
           absent == ~PathExists(disk, image_dir)
           st == save_images(result, image_dir)
           l == [loc[p] EXCEPT !.image_dir = image_dir, !.ops = st.ops, !.warnings = st.warnings]
           g == IF absent THEN LogOp(ghost[p], MkdirOp(image_dir)) ELSE ghost[p]
           end == EndResult(l, g)
       IN  IF absent /\ MkdirError(disk, image_dir) # NoExc
           THEN /\ Raise(p, MkdirError(disk, image_dir))
                /\ UNCHANGED <<disk, ghost>>
           ELSE /\ disk' = IF absent THEN Mkdir(disk, image_dir) ELSE disk
                /\ hist' = hist
                /\ IF st.ops # <<>>
                   THEN /\ loc' = [loc EXCEPT ![p] = l]
                        /\ ghost' = [ghost EXCEPT ![p] = g]
                        /\ pc' = [pc EXCEPT ![p] = "media"]
                   ELSE /\ loc' = [loc EXCEPT ![p] = end.loc]
                        /\ ghost' = [ghost EXCEPT ![p] = end.ghost]
                        /\ pc' = [pc EXCEPT ![p] = end.pc]
    /\ UNCHANGED <<now, resp, dl>>

\* lines 118-152: the next file-system call of the element loop (the
\* open of an element's PNG file, or image.save into it), which raises
\* or takes effect; after the last one the body of the result loop ends
MediaStep(p) ==
    /\ pc[p] = "media"
    /\ LET op == Head(loc[p].ops)
           l == [loc[p] EXCEPT !.ops = Tail(@)]
           g == LogOp(ghost[p], op)
           end == EndResult(l, g)
       IN  IF OpError(disk, op) # NoExc
           THEN /\ Raise(p, OpError(disk, op))
                /\ UNCHANGED <<disk, ghost>>
           ELSE /\ disk' = ExecOp(disk, op)
                /\ hist' = hist
                /\ IF l.ops # <<>>
                   THEN /\ loc' = [loc EXCEPT ![p] = l]
                        /\ ghost' = [ghost EXCEPT ![p] = g]
                        /\ pc' = pc
                   ELSE /\ loc' = [loc EXCEPT ![p] = end.loc]
                        /\ ghost' = [ghost EXCEPT ![p] = end.ghost]
                        /\ pc' = [pc EXCEPT ![p] = end.pc]
    /\ UNCHANGED <<now, resp, dl>>

\* lines 179-196: the handler's answer, after convert_documents returned
\* (walk the output directory) or from `except Exception as e`
Respond(r) ==
    /\ pc[r] \in {"respond", "except"}
    /\ resp' = [resp EXCEPT ![r] =
                  IF pc[r] = "respond"
                  THEN SuccessResp(BodyKind(loc[r].content_type),
                                   ListFiles(disk, loc[r].output_path.val))
                  ELSE ErrorResp(500, BodyKind(loc[r].content_type), loc[r].exc)]
    /\ pc' = [pc EXCEPT ![r] = "done"]
    /\ UNCHANGED <<disk, now, loc, dl, ghost, hist>>

\* GET /download/<path:filename>, lines 199-202: send_from_directory
\* serves out of the fixed directory 'output' what the file holds now
NoDownload == [path |-> RelPath(NoSub, EmptyName), status |-> 0, body |-> EmptyBody]

send_from_directory(d, directory, rel) ==
    LET path == FilePath(directory, rel.sub, rel.name)
    IN  IF Exists(d, path)
        THEN [path |-> rel, status |-> 200, body |-> d.files[path]]
        ELSE [path |-> rel, status |-> 404, body |-> EmptyBody]

Download(rel) ==
    /\ dl' = send_from_directory(disk, DownloadDir, rel)
    /\ UNCHANGED <<disk, now, pc, loc, resp, ghost, hist>>

\* The direct calls made so far, each counted with its input paths; the
\* model stops issuing calls when the next one would pass MaxWork.
RECURSIVE Work(_)
Work(h) == IF h = <<>> THEN 0 ELSE 1 + Len(Head(h).input_paths) + Work(Tail(h))

\* convert_documents called directly: lines 64-83
Call(p, input_paths, output_path, formats) ==
    /\ pc[p] \in {"idle", "returned", "raised"}
    /\ Work(hist) + 1 + Len(input_paths) <= MaxWork
    /\ loc' = [loc EXCEPT ![p] = [IdleLoc EXCEPT !.input_paths = input_paths,
                                                 !.output_path = PathArg(output_path),
                                                 !.formats = formats, !.i = 1]]
    /\ ghost' = [ghost EXCEPT ![p] = [IdleGhost EXCEPT !.invoked = 1,
                                                       !.staged = Staged(disk, input_paths)]]
    /\ pc' = [pc EXCEPT ![p] = "loop"]
    /\ UNCHANGED <<disk, now, resp, dl, hist>>

\* the wall clock advances
Tick ==
    /\ now < MaxTime
    /\ now' = now + 1
    /\ UNCHANGED <<disk, pc, loc, resp, dl, ghost, hist>>

(* ------------------------------ specifications ------------------------ *)
DownloadNames == {RelPath(NoSub, <<"a", "txt">>)}

Init ==
    /\ disk = HostDisk
    /\ now = 0
    /\ pc = [p \in Procs |-> "idle"]
    /\ loc = [p \in Procs |-> IdleLoc]
    /\ resp = [p \in Procs |-> NoResp]
    /\ dl = NoDownload
    /\ ghost = [p \in Procs |-> IdleGhost]
    /\ hist = <<>>

Next ==
    \/ \E r \in Reqs, files \in SeqsUpTo(Uploads, MaxFiles), form \in RequestForms,
          content_type \in ContentTypes :
            Receive(r, files, form.formats, form.output_path, content_type)
    \/ \E r \in Reqs : StageFile(r)
    \/ \E r \in Reqs : SaveChunk(r)
    \/ \E r \in Reqs : Convert(r)
    \/ \E r \in Reqs : LoopHead(r)
    \/ \E r \in Reqs : Respond(r)
    \/ \E rel \in DownloadNames : Download(rel)

Spec == Init /\ [][Next]_vars

\* The documents standing in temp_files/ when convert_documents is called
\* directly.
InputNames == {<<"a", "docx">>, <<"r%f", "docx">>, <<"c", "docx">>}
InputPaths == {FilePath(TempDir, NoSub, n) : n \in InputNames}

InitCall ==
    /\ disk = [files |-> (FilePath(TempDir, NoSub, <<"a", "docx">>) :> RawBody("media"))
                       @@ (FilePath(TempDir, NoSub, <<"r%f", "docx">>) :> RawBody("blank"))
                       @@ (FilePath(TempDir, NoSub, <<"c", "docx">>) :> RawBody("bad")),
               dirs |-> HostDisk.dirs \cup {DirPath(TempDir, NoSub)}]
    /\ now = 0
    /\ pc = [p \in Procs |-> "idle"]
    /\ loc = [p \in Procs |-> IdleLoc]
    /\ resp = [p \in Procs |-> NoResp]
    /\ dl = NoDownload
    /\ ghost = [p \in Procs |-> IdleGhost]
    /\ hist = <<>>

NextCall ==
    \/ \E p \in Callers, input_paths \in SeqsUpTo(InputPaths, MaxFiles),
          output_path \in {DownloadDir}, formats \in CallFormats :
            Call(p, input_paths, output_path, formats)
    \/ \E p \in Callers : LoopHead(p)
    \/ \E p \in Callers : ConvertNext(p)
    \/ \E p \in Callers : ExportStep(p)
    \/ \E p \in Callers : MakeImageDir(p)
    \/ \E p \in Callers : MediaStep(p)
    \/ \E rel \in DownloadNames : Download(rel)
    \/ Tick

SpecCall == InitCall /\ [][NextCall]_vars

\* the documents of the batch: one that converts and one that does not
BatchPaths == {FilePath(TempDir, NoSub, n) : n \in {<<"a", "docx">>, <<"c", "docx">>}}

\* One POST /convert that names its formats and one direct call on a
\* batch, one after the other: the request is admitted before the call
\* is made, and the call is made when no request is being handled.  The
\* clock advances and GET /download is served throughout.  The uploads
\* of the request and the documents of the batch are bounded together
\* by MaxWork.
NextBatch ==
    \/ \E files \in SeqsUpTo(BatchUploads, MaxFiles), form \in RequestForms,
          content_type \in ContentTypes :
            /\ form.formats # {}
            /\ \A p \in Callers : pc[p] = "idle"
            /\ Receive("r1", files, form.formats, form.output_path, content_type)
    \/ StageFile("r1")
    \/ SaveChunk("r1")
    \/ Convert("r1")
    \/ LoopHead("r1")
    \/ Respond("r1")
    \/ \E p \in Callers, input_paths \in SeqsUpTo(BatchPaths, MaxFiles),
          output_path \in {DownloadDir}, formats \in CallFormats :
            /\ pc["r1"] \in {"idle", "done"}
            /\ hist = <<>>
            /\ Len(loc["r1"].files) + Len(input_paths) <= MaxWork
            /\ Call(p, input_paths, output_path, formats)
    \/ \E p \in Callers : LoopHead(p)
    \/ \E p \in Callers : ConvertNext(p)
    \/ \E p \in Callers : ExportStep(p)
    \/ \E p \in Callers : MakeImageDir(p)
    \/ \E p \in Callers : MediaStep(p)
    \/ \E rel \in DownloadNames : Download(rel)
    \/ Tick

SpecBatch == InitCall /\ [][NextBatch]_vars


(* ====================================================================== *)
(*                              Properties                                *)
(* ====================================================================== *)
SupportedTags == {"md", "txt", "json", "yaml"}

Finite(r) == pc[r] = "done"
Valid(r) == loc[r].files # <<>> /\ loc[r].formats # {}
NamesGiven(r) == \A k \in 1..Len(loc[r].files) : loc[r].files[k].filename.name # EmptyName

\* what process p wrote or created outside temp_files/
OutsideTemp(p) == {x \in ghost[p].wrote \cup ghost[p].made : x.root # TempDir}

\* the relative paths of the files process p wrote under its output directory
Produced(p) ==
    {RelPath(x.sub, x.name) : x \in {y \in ghost[p].wrote : y.root = loc[p].output_path.val}}

(* ------------------------------ C1 ------------------------------------ *)
\* C1: a POST /convert whose file list or formats list is empty is
\* answered 400 with the validation error at once: it never reaches the
\* staging or the conversion, and it writes no file and creates no
\* directory (nothing outside temp_files/, and the output directory is
\* neither created nor modified by it).
C1_ValidationError ==
    \A r \in Reqs :
        (pc[r] # "idle" /\ (loc[r].files = <<>> \/ loc[r].formats = {})) =>
            /\ pc[r] = "done"
            /\ resp[r] = [status |-> 400, kind |-> "json",
                          error |-> Msg("Files and formats are required", NoPath), files |-> {}]
            /\ ghost[r].invoked = 0
            /\ ghost[r].wrote = {} /\ ghost[r].made = {}
            /\ OutsideTemp(r) = {}

\* a request with files and no formats, and one with formats and no
\* files, both answered 400
C1_Witness ==
    /\ pc["r1"] = "done" /\ loc["r1"].files # <<>> /\ loc["r1"].formats = {}
    /\ resp["r1"].status = 400
    /\ pc["r2"] = "done" /\ loc["r2"].files = <<>> /\ loc["r2"].formats # {}
    /\ resp["r2"].status = 400

(* ------------------------------ C10 ----------------------------------- *)
\* C10: no POST /convert ends with a success response.  A request that
\* passes validation stages its uploads in temp_files/ and then ends with
\* status 500 and no file list: when every upload has a name, all of them
\* are written in temp_files/ and the error is the AttributeError of
\* `output_path.exists()` on a string, raised at the first and only
\* invocation, before any conversion; and no request ever writes or
\* creates anything outside temp_files/, so the output directories stay
\* absent.
C10_NeverSucceeds ==
    /\ \A r \in Reqs :
        /\ pc[r] \in {"idle", "stage", "save", "call", "loop", "except", "done"}
        /\ resp[r].status \in {0, 400, 500}
        /\ OutsideTemp(r) = {}
        /\ (Finite(r) /\ Valid(r)) =>
              /\ resp[r].status = 500 /\ resp[r].files = {}
              /\ NamesGiven(r) =>
                    /\ resp[r].error = Msg("'str' object has no attribute 'exists'", NoPath)
                    /\ ghost[r].invoked = 1
                    /\ ghost[r].trace = <<>>
                    /\ ghost[r].wrote =
                         {FilePath(TempDir, NoSub, loc[r].files[k].filename.name) :
                              k \in 1..Len(loc[r].files)}
    /\ \A root \in OutputPaths :
        /\ DirPath(root, NoSub) \notin disk.dirs
        /\ ListFiles(disk, root) = {}

(* ------------------------------ C2 ------------------------------------ *)
\* C2: for a POST /convert with one input document and formats F, the
\* files created under the output directory are exactly <stem>.<tag> for
\* the tags of F among md, txt, json and yaml.
C2_ExactExports ==
    \A r \in Reqs :
        (Finite(r) /\ Valid(r) /\ NamesGiven(r) /\ Len(loc[r].files) = 1) =>
            Produced(r) =
                {RelPath(NoSub, <<Stem(loc[r].files[1].filename.name), tag>>) :
                     tag \in loc[r].formats \cap SupportedTags}

(* ------------------------------ C3 ------------------------------------ *)
\* C3: after a POST /convert of one document with formats ["txt"], for
\* either output_path, the response lists "<stem>.txt" and a
\* GET /download/<stem>.txt returns the plain text exported by the request.
C3_EndToEnd ==
    \A r \in Reqs :
        (Finite(r) /\ NamesGiven(r) /\ Len(loc[r].files) = 1 /\ loc[r].formats = {"txt"}) =>
            LET stem == Stem(loc[r].files[1].filename.name)
                rel == RelPath(NoSub, <<stem, "txt">>)
                got == send_from_directory(disk, DownloadDir, rel)
            IN  /\ rel \in resp[r].files
                /\ got.status = 200
                /\ got.body = Content(loc[r].files[1].doc, "txt", 0)

(* ------------------------------ C6 ------------------------------------ *)
\* C6: after any sequence of earlier conversions, the file list the
\* service builds once convert_documents has returned (the walk of the
\* output directory, lines 180-184) is exactly the relative paths of the
\* files that this conversion, of at least one document, produced under
\* its output directory: every listed path was produced by it, and every
\* file it produced is listed.
C6_ListsOwnFiles ==
    \A p \in Callers :
        (pc[p] = "returned" /\ loc[p].input_paths # <<>>) =>
            ListFiles(disk, loc[p].output_path.val) = Produced(p)

(* ------------------------------ C8 ------------------------------------ *)
\* the document r itself staged last under the name of its k-th upload
OwnLast(r, k) ==
    LET same == {m \in 1..Len(loc[r].files) :
                    loc[r].files[m].filename = loc[r].files[k].filename}
    IN  loc[r].files[CHOOSE m \in same : \A n \in same : n <= m].doc

\* Was one of r's staged uploads overwritten (replaced, or mixed with
\* other bytes) by the other request before r called convert_documents?
Overwritten(r) ==
    /\ ghost[r].invoked = 1
    /\ \E k \in 1..Len(ghost[r].staged) : ghost[r].staged[k] # OwnLast(r, k)

\* C8: when two concurrent requests upload under the same filename and
\* one's staged upload is overwritten by the other's, the request goes on
\* to convert, or to report, content that is not its own.
C8_ConvertsForeignContent ==
    \A r \in Reqs :
        (Finite(r) /\ NamesGiven(r) /\ Overwritten(r)) =>
            \/ \E k \in 1..Len(ghost[r].trace) : ghost[r].trace[k].op = "convert"
            \/ resp[r].files # {}

(* ------------------------------ C9 ------------------------------------ *)
Count(trace, op, j) ==
    Cardinality({k \in 1..Len(trace) : trace[k].op = op /\ trace[k].j = j})

\* C9: a call of convert_documents with N input paths that returns has
\* converted each input document exactly once, and has called the
\* Exporter once and the Media Extractor once for it.
C9_OncePerDocument ==
    \A k \in 1..Len(hist) :
        hist[k].outcome = "returned" =>
            \A j \in 1..Len(hist[k].input_paths) :
                /\ Count(hist[k].trace, "convert", j) = 1
                /\ Count(hist[k].trace, "export", j) = 1
                /\ Count(hist[k].trace, "media", j) = 1

(* ------------------------------ C7 ------------------------------------ *)
ImageDirs(trace) == {trace[k].dir : k \in {m \in 1..Len(trace) : trace[m].op = "media"}}

\* C7: two successive calls converting the same single input with the
\* same formats into the same output directory leave one export file per
\* requested format and two distinct image subdirectories, one per call.
C7_TwoImageDirs ==
    \A k \in 1..Len(hist), m \in 1..Len(hist) :
        ( /\ k < m
          /\ hist[k].outcome = "returned" /\ hist[m].outcome = "returned"
          /\ Len(hist[k].input_paths) = 1
          /\ hist[k].input_paths = hist[m].input_paths
          /\ hist[k].formats = hist[m].formats
          /\ hist[k].output_path = hist[m].output_path ) =>
            /\ ImageDirs(hist[k].trace) \cap ImageDirs(hist[m].trace) = {}
            /\ Cardinality(ImageDirs(hist[k].trace) \cup ImageDirs(hist[m].trace)) = 2

(* ------------------------------ C4 ------------------------------------ *)
\* the 1-based rank of element k among the elements of its kind
Rank(doc, k) ==
    Cardinality({m \in 1..k : DocElems(doc)[m].kind = DocElems(doc)[k].kind})

\* the document standing at an input path (the calls never write there)
DocAt(path) == DocOf(disk.files[path])

\* Element k of the document converted from `path`, extracted into `dir`:
\* saved under its kind and rank when it renders, absent and warned about
\* when it does not.
ElementHandled(p, path, dir, k) ==
    LET doc == DocAt(path)
        el == DocElems(doc)[k]
        name == <<Stem(path.name), el.kind, Rank(doc, k)>>
        file == FilePath(dir.root, dir.sub, name)
    IN  el.kind \in {"table", "picture"} =>
            IF el.image
            THEN Exists(disk, file) /\ disk.files[file] = Content(doc, "png", k)
            ELSE ~Exists(disk, file) /\ name \in ghost[p].warnings

\* C4: in the media extraction of a document, a table or picture that
\* renders to no image is skipped with a warning and no file, no
\* exception is raised for it, every other table and picture of the
\* document is saved under its own number (as found whenever no element
\* loop is in the middle of its writes), and the documents after it in
\* the batch are processed as well.
C4_MissingImageSkipped ==
    \A p \in Callers :
        /\ (pc[p] # "media") =>
              \A k \in 1..Len(ghost[p].trace) :
                  LET ev == ghost[p].trace[k]
                      path == loc[p].input_paths[ev.j]
                  IN  ev.op = "media" =>
                          \A e \in 1..Len(DocElems(DocAt(path))) :
                              ElementHandled(p, path, ev.dir, e)
        /\ (pc[p] = "raised") =>
              \E j \in 1..Len(loc[p].input_paths) : ~Convertible(DocAt(loc[p].input_paths[j]))
        /\ (pc[p] = "returned") =>
              \A j \in 1..Len(loc[p].input_paths) : Count(ghost[p].trace, "media", j) >= 1

\* a batch of the document with two unrendered elements and a second
\* document: the call returned, the two elements were warned about, the
\* table before them was saved as table 1 and the picture after them as
\* picture 2, and the second document was processed
C4_Witness ==
    \E p \in Callers :
        /\ pc[p] = "returned"
        /\ Len(loc[p].input_paths) = 2
        /\ DocAt(loc[p].input_paths[1]) = "media"
        /\ {<<"a", "picture", 1>>, <<"a", "table", 2>>} \subseteq ghost[p].warnings
        /\ \E x \in ghost[p].wrote :
              x.name = <<"a", "table", 1>> /\ disk.files[x] = Content("media", "png", 1)
        /\ \E x \in ghost[p].wrote :
              x.name = <<"a", "picture", 2>> /\ disk.files[x] = Content("media", "png", 5)
        /\ Count(ghost[p].trace, "media", 2) >= 1

(* ------------------------------ C5 ------------------------------------ *)
\* the document that request r saved last at `path`
SavedAt(r, path) ==
    LET same == {m \in 1..Len(loc[r].input_paths) : loc[r].input_paths[m] = path}
    IN  loc[r].files[CHOOSE m \in same : \A n \in same : n <= m].doc

\* The outputs of the completed result j of call p, converted from `path`
\* and extracted into `dir`, are on disk whole: an export per requested
\* tag the Exporter knows, and the rendered tables and pictures.
OutputsWhole(p, path, dir) ==
    /\ \A tag \in loc[p].formats \cap SupportedTags :
          LET file == FilePath(loc[p].output_path.val, NoSub, <<Stem(path.name), tag>>)
          IN  Exists(disk, file) /\ disk.files[file] = Content(DocAt(path), tag, 0)
    /\ \A e \in 1..Len(DocElems(DocAt(path))) : ElementHandled(p, path, dir, e)

\* C5: an exception raised by the converter or by a file-system write is
\* not caught inside the batch and is caught once by the handler.  A
\* request that met one ends with one response of status 500 that carries
\* the exception's message and no file list, in the body kind the content
\* type selects, having invoked convert_documents at most once (no
\* retry); and a call of convert_documents in which the converter or a
\* file-system call raises ends there with that exception (the converter
\* on a document it cannot convert, which is then neither exported nor
\* extracted).  Nothing is rolled back: the uploads the request had saved
\* before the exception are on disk with the bytes it saved, and the
\* exports and images written for the documents converted before the
\* failing one are on disk whole.
C5_ErrorResponse ==
    /\ \A r \in Reqs :
        /\ (pc[r] = "except") => (loc[r].exc # NoExc /\ resp[r] = NoResp)
        /\ ghost[r].invoked <= 1
        /\ (Finite(r) /\ loc[r].exc # NoExc) =>
              /\ resp[r] = [status |-> 500, kind |-> BodyKind(loc[r].content_type),
                            error |-> loc[r].exc, files |-> {}]
              /\ ghost[r].wrote =
                    {loc[r].input_paths[k] : k \in 1..Len(loc[r].input_paths)}
              /\ \A path \in ghost[r].wrote :
                    Exists(disk, path) /\ disk.files[path] = RawBody(SavedAt(r, path))
              /\ \A dir \in ghost[r].made : dir \in disk.dirs
    /\ \A p \in Callers :
        (pc[p] = "raised") =>
            /\ loc[p].exc # NoExc
            /\ hist # <<>> /\ hist[Len(hist)].outcome = "raised"
            /\ IF loc[p].exc = Msg("ConversionError", NoPath)
               THEN /\ ~Convertible(DocAt(loc[p].input_paths[loc[p].j]))
                    /\ Count(ghost[p].trace, "convert", loc[p].j) = 0
               ELSE /\ loc[p].exc.path.root = loc[p].output_path.val
                    /\ loc[p].exc.path \notin ghost[p].wrote
            /\ \A k \in 1..Len(ghost[p].trace) :
                  LET ev == ghost[p].trace[k]
                  IN  ev.op = "media" => OutputsWhole(p, loc[p].input_paths[ev.j], ev.dir)

\* the second upload of a request cannot be written (it has no name): the
\* request is answered 500 with that error, and its first upload, saved
\* before the failure, is in temp_files/ with its bytes; and in a batch
\* of two documents the converter raises on the second: the call ends
\* with that exception, and the exports and images of the first document
\* are on disk whole
C5_Witness ==
    /\ \E r \in Reqs :
        /\ Finite(r) /\ Len(loc[r].files) = 2
        /\ loc[r].exc = Msg("[Errno 21] Is a directory", FilePath(TempDir, NoSub, EmptyName))
        /\ resp[r].status = 500 /\ resp[r].error = loc[r].exc
        /\ Len(loc[r].input_paths) = 1
        /\ disk.files[loc[r].input_paths[1]] = RawBody(loc[r].files[1].doc)
    /\ \E p \in Callers :
        /\ pc[p] = "raised"
        /\ Len(loc[p].input_paths) = 2 /\ loc[p].j = 2
        /\ DocAt(loc[p].input_paths[1]) = "media"
        /\ loc[p].formats = {"md", "txt"}
        /\ disk.files[FilePath(DownloadDir, NoSub, <<"a", "md">>)] = Content("media", "md", 0)
        /\ \E x \in ghost[p].wrote :
              x.name = <<"a", "picture", 2>> /\ disk.files[x] = Content("media", "png", 5)

====
